---- MODULE Spec2Model ----
(***************************************************************************)
(* URLRenderer (plugins/url_renderer/url_renderer.py): rendering a web URL *)
(* to an image with headless Chromium.  generate_image validates the URL,  *)
(* resolves the device geometry and calls take_webpage_screenshot, which   *)
(* allocates a temporary file, runs the browser, loads the capture,        *)
(* optionally rescales it (_resize_full_page) and removes the file.        *)
(*                                                                         *)
(* The browser, the file system and Pillow are the environment: their      *)
(* outcomes are chosen nondeterministically.  Python floats are IEEE       *)
(* doubles; the arithmetic of _resize_full_page is modelled bit-exactly    *)
(* with integers (see TruncMul).                                           *)
(***************************************************************************)
EXTENDS Integers, Sequences, FiniteSets, TLC

(***************************************************************************)
(* Bounds of the model.                                                    *)
(***************************************************************************)
\* number of names the temporary directory can hand out
NumPaths == 2
\* largest raw width/height of the _resize_full_page input space
MaxRaw == 11
\* largest target width/height of the _resize_full_page input space
MaxTarget == 15

\* bits of precision of a Python float (IEEE 754 binary64)
MantissaBits == 53

Calls == {1, 2}
Paths == 1..NumPaths
NoPath == 0

(***************************************************************************)
(* Double-precision arithmetic on ratios of positive integers.             *)
(***************************************************************************)
RECURSIVE Log2Floor(_)
\* floor(log2(n)) for n >= 1
Log2Floor(n) == IF n < 2 THEN 0 ELSE 1 + Log2Floor(n \div 2)

RECURSIVE Pow2(_)
Pow2(k) == IF k <= 0 THEN 1 ELSE 2 * Pow2(k - 1)

RECURSIVE ShiftsUntil(_, _)
\* least k with a * 2^k >= b
ShiftsUntil(a, b) == IF a >= b THEN 0 ELSE 1 + ShiftsUntil(2 * a, b)

\* the binary exponent e of a/b: 2^e <= a/b < 2^(e+1)
BinExp(a, b) == IF a >= b THEN Log2Floor(a \div b) ELSE 0 - ShiftsUntil(a, b)

RECURSIVE DoubleMod(_, _, _)
\* (r * 2^s) mod b
DoubleMod(r, b, s) == IF s = 0 THEN r ELSE DoubleMod((2 * r) % b, b, s - 1)

\* the part of a/b below the last mantissa bit, in units of 1/b:
\* a/b * 2^(52-e) = M + MantissaRem/b with M the integer mantissa
MantissaRem(a, b) == DoubleMod(a % b, b, (MantissaBits - 1) - BinExp(a, b))

\* a/b is rounded down (to nearest) when stored as a double
RoundsDown(a, b) == LET r == MantissaRem(a, b) IN r # 0 /\ 2 * r < b

\* exponent of the spacing of the doubles just below the integer n >= 1
ExpBelow(n) == IF n = Pow2(Log2Floor(n)) THEN Log2Floor(n) - 1 ELSE Log2Floor(n)

\* c * fl(a/b), rounded to a double, falls below the integer c*a/b
ProductFallsShort(c, a, b) ==
    LET r == MantissaRem(a, b)
        k == ExpBelow((c * a) \div b) - BinExp(a, b)
    IN /\ (c * a) % b = 0
       /\ RoundsDown(a, b)
       /\ IF k >= 0 THEN 2 * c * r > b * Pow2(k)
                    ELSE 2 * c * r * Pow2(0 - k) > b

\* int(c * (a / b)) as Python computes it: a true division to a double, a
\* double multiplication, and a truncation
TruncMul(c, a, b) ==
    IF ProductFallsShort(c, a, b) THEN ((c * a) \div b) - 1 ELSE (c * a) \div b

\* the larger of the two ratios taken instead of the smaller
NewSizeMax(raw, target) ==
    LET widthFirst == target[1] * raw[2] >= target[2] * raw[1]
        a == IF widthFirst THEN target[1] ELSE target[2]
        b == IF widthFirst THEN raw[1] ELSE raw[2]
    IN <<TruncMul(raw[1], a, b), TruncMul(raw[2], a, b)>>

\* _resize_full_page, lines 117-129: the size handed to image.resize.
\* ratio = min(desired_width / img_width, desired_height / img_height)
NewSize(raw, target) ==
    LET widthFirst == target[1] * raw[2] <= target[2] * raw[1]
        a == IF widthFirst THEN target[1] ELSE target[2]
        b == IF widthFirst THEN raw[1] ELSE raw[2]
    IN <<TruncMul(raw[1], a, b), TruncMul(raw[2], a, b)>>

\* Image.resize refuses a size with a side below one pixel (ValueError)
ResizeRaises(size) == size[1] < 1 \/ size[2] < 1

(***************************************************************************)
(* urllib.parse.urlparse on a URL given as a sequence of tokens: a word,   *)
(* or one of the separators ":", "//", "/", "?".                           *)
(***************************************************************************)
Separators == {":", "//", "/", "?"}

\* least index i >= from with u[i] in stops, Len(u) + 1 when there is none
FirstStop(u, from, stops) ==
    LET hits == {i \in from..Len(u) : u[i] \in stops}
    IN IF hits = {} THEN Len(u) + 1 ELSE CHOOSE i \in hits : \A j \in hits : i <= j

urlparse(u) ==
    LET hasScheme == Len(u) >= 2 /\ u[1] \notin Separators /\ u[2] = ":"
        rest == IF hasScheme THEN SubSeq(u, 3, Len(u)) ELSE u
        hasNetloc == Len(rest) >= 1 /\ rest[1] = "//"
        netlocEnd == FirstStop(rest, 2, {"/", "?"})
        pathStart == IF hasNetloc THEN netlocEnd ELSE 1
        pathEnd == FirstStop(rest, pathStart, {"?"})
    IN [scheme |-> IF hasScheme THEN <<u[1]>> ELSE <<>>,
        netloc |-> IF hasNetloc THEN SubSeq(rest, 2, netlocEnd - 1) ELSE <<>>,
        path |-> SubSeq(rest, pathStart, pathEnd - 1)]

HttpsPrefix == <<"https", ":", "//">>

\* https:// prepended whenever scheme or netloc is missing
ValidateUrlAnyPrefix(s) ==
    LET u == s.url
    IN IF ~s.hasUrl \/ u = <<>>
       THEN [ok |-> FALSE, url |-> <<>>, error |-> "URL not provided."]
       ELSE IF urlparse(u).scheme = <<>> \/ urlparse(u).netloc = <<>>
            THEN [ok |-> TRUE, url |-> HttpsPrefix \o u, error |-> ""]
            ELSE [ok |-> TRUE, url |-> u, error |-> ""]

\* generate_image, lines 23-34: the url setting checked and normalised
ValidateUrl(s) ==
    LET u == s.url
        parsed_url == urlparse(u)
    IN IF ~s.hasUrl \/ u = <<>>
       THEN [ok |-> FALSE, url |-> <<>>, error |-> "URL not provided."]
       ELSE IF parsed_url.scheme = <<>> \/ parsed_url.netloc = <<>>
            THEN IF parsed_url.scheme = <<>> /\ parsed_url.path # <<>>
                 THEN [ok |-> TRUE, url |-> HttpsPrefix \o u, error |-> ""]
                 ELSE [ok |-> FALSE, url |-> <<>>, error |-> "Invalid URL provided."]
            ELSE [ok |-> TRUE, url |-> u, error |-> ""]

\* the orientation ignored
DimensionsUnswapped(d) == d.resolution

\* generate_image, lines 37-39: the resolution, swapped when vertical
Dimensions(d) ==
    IF d.orientation = "vertical"
    THEN <<d.resolution[2], d.resolution[1]>>
    ELSE d.resolution

\* generate_image, lines 42-49: settings.get('zoomLevel', '1.0') and
\* settings.get('captureFullPage') == 'true'
Options(s) ==
    [zoom |-> IF s.zoomLevel = "absent" THEN "1.0" ELSE s.zoomLevel,
     full_page |-> s.captureFullPage = "true"]

(***************************************************************************)
(* The inputs of a call.                                                   *)
(***************************************************************************)
UrlInputs ==
    {[hasUrl |-> FALSE, url |-> <<>>],
     [hasUrl |-> TRUE, url |-> <<>>],
     [hasUrl |-> TRUE, url |-> <<"https", ":", "//", "example.com">>],
     [hasUrl |-> TRUE, url |-> <<"https", ":", "//", "example.com", "/", "page">>],
     [hasUrl |-> TRUE, url |-> <<"example.com">>],
     [hasUrl |-> TRUE, url |-> <<"example.com", "/", "page">>],
     [hasUrl |-> TRUE, url |-> <<"http", ":", "//">>],
     [hasUrl |-> TRUE, url |-> <<"mailto", ":", "user">>],
     [hasUrl |-> TRUE, url |-> <<"//", "example.com">>],
     [hasUrl |-> TRUE, url |-> <<"//", "example.com", "/", "page">>],
     [hasUrl |-> TRUE, url |-> <<"?", "q">>]}

ZoomInputs == {"absent", "1.0", "2.0", "0.5", "0", "-1.5", "abc"}

FullPageInputs == {"absent", "true", "false"}

SettingsInputs ==
    {[hasUrl |-> u.hasUrl, url |-> u.url, zoomLevel |-> z, captureFullPage |-> f] :
        u \in UrlInputs, z \in ZoomInputs, f \in FullPageInputs}

DeviceInputs ==
    {[resolution |-> <<800, 480>>, orientation |-> o] :
        o \in {"absent", "horizontal", "vertical"}}

\* the inputs of the two concurrent calls: a valid URL, any capture mode
ConcurrentSettings ==
    {s \in SettingsInputs : /\ s.url = <<"https", ":", "//", "example.com">>
                            /\ s.zoomLevel = "1.0"
                            /\ s.captureFullPage \in {"true", "false"}}

ConcurrentDevices == {d \in DeviceInputs : d.orientation = "horizontal"}

(***************************************************************************)
(* The environment: what the browser writes.                               *)
(***************************************************************************)
\* the device scale factor the browser reads from --force-device-scale-factor
ScaleOf(zoom) ==
    CASE zoom = "1.0" -> <<1, 1>>
      [] zoom = "2.0" -> <<2, 1>>
      [] zoom = "0.5" -> <<1, 2>>
      [] OTHER -> <<0, 1>>

\* sizes a full-page capture (or a capture at a scale the browser cannot
\* read) may have
RawSizes == {<<800, 480>>, <<480, 800>>, <<800, 2400>>, <<1600, 960>>, <<1, 1000>>}

\* the sizes of the capture the browser may write: the window times the device
\* scale factor for a viewport capture, the page's own size for a full page
CaptureSizes(window, zoom, full_page) ==
    LET k == ScaleOf(zoom)
    IN IF ~full_page /\ k[1] > 0
       THEN {<<(window[1] * k[1]) \div k[2], (window[2] * k[1]) \div k[2]>>}
       ELSE RawSizes

(***************************************************************************)
(* State.  Every variable but files, rawIn, targetIn and resized is a      *)
(* function of the call.                                                   *)
(***************************************************************************)
VARIABLES
    pc,          \* where the call stands
    settings,    \* the settings argument of generate_image
    device,      \* what device_config answers
    url,         \* the url local of generate_image, after normalisation
    dimensions,  \* the dimensions local
    options,     \* the options dictionary
    path,        \* img_file_path, NoPath while unbound
    files,       \* the temporary directory: the file under every name
    command,     \* the command line handed to subprocess.run
    proc,        \* what subprocess.run gave
    image,       \* the image local of take_webpage_screenshot
    log,         \* the logger.error entries of the call
    tws,         \* how take_webpage_screenshot ended
    result,      \* how generate_image ended
    caught,      \* the exception the handler of line 110 caught, and where
    foreign,     \* the call touched a file another call created
    rawIn,       \* _resize_full_page alone: image.size
    targetIn,    \* _resize_full_page alone: dimensions
    resized      \* _resize_full_page alone: its outcome

callVars == <<pc, settings, device, url, dimensions, options, path, command,
              proc, image, log, tws, result, caught, foreign>>
resizeVars == <<rawIn, targetIn, resized>>
vars == <<callVars, files, resizeVars>>

\* an image: its size, whether its data is whole, and, once rescaled by
\* _resize_full_page, the box it was rescaled to
NoImage == [kind |-> "none", size |-> <<0, 0>>, resized |-> FALSE,
            box |-> <<0, 0>>, complete |-> FALSE]
NoFile == [kind |-> "absent", size |-> <<0, 0>>, creator |-> 0]
NoCommand == [launched |-> FALSE, url |-> <<>>, screenshot |-> NoPath,
              window_size |-> <<0, 0>>, scale_factor |-> "",
              viewport_sizing |-> FALSE]
\* a CompletedProcess, with the file the browser left behind
NoProc == [kind |-> "none", returncode |-> 0, stderr_ok |-> TRUE, left |-> NoFile]
Pending == [kind |-> "pending", raised |-> "", value |-> NoImage]
NoResult == [kind |-> "pending", message |-> "", detail |-> "", image |-> NoImage]
NoSettings == [hasUrl |-> FALSE, url |-> <<>>, zoomLevel |-> "absent",
               captureFullPage |-> "absent"]
NoDevice == [resolution |-> <<0, 0>>, orientation |-> "absent"]
NoException == [exc |-> "", at |-> ""]
NotResized == [kind |-> "pending", size |-> <<0, 0>>]

InitCalls ==
    /\ pc = [c \in Calls |-> "idle"]
    /\ settings = [c \in Calls |-> NoSettings]
    /\ device = [c \in Calls |-> NoDevice]
    /\ url = [c \in Calls |-> <<>>]
    /\ dimensions = [c \in Calls |-> <<0, 0>>]
    /\ options = [c \in Calls |-> [zoom |-> "", full_page |-> FALSE]]
    /\ path = [c \in Calls |-> NoPath]
    /\ files = [p \in Paths |-> NoFile]
    /\ command = [c \in Calls |-> NoCommand]
    /\ proc = [c \in Calls |-> NoProc]
    /\ image = [c \in Calls |-> NoImage]
    /\ log = [c \in Calls |-> <<>>]
    /\ tws = [c \in Calls |-> Pending]
    /\ result = [c \in Calls |-> NoResult]
    /\ caught = [c \in Calls |-> NoException]
    /\ foreign = [c \in Calls |-> FALSE]

Init ==
    /\ InitCalls
    /\ rawIn = <<1, 1>>
    /\ targetIn = <<1, 1>>
    /\ resized = NotResized

(***************************************************************************)
(* How the two functions end.                                              *)
(***************************************************************************)
RuntimeError(message, detail) ==
    [kind |-> "RuntimeError", message |-> message, detail |-> detail, image |-> NoImage]

\* line 53 left out: a None from take_webpage_screenshot is returned
GenerateImageEndUnchecked(t) ==
    IF t.raised # ""
    THEN [result |-> RuntimeError("Screenshot generation failed: ", t.raised),
          log |-> <<"Failed to generate image from URL: ">>]
    ELSE [result |-> [kind |-> IF t.value = NoImage THEN "None" ELSE "image",
                      message |-> "", detail |-> "", image |-> t.value],
          log |-> <<>>]

\* generate_image, lines 51-58, given how take_webpage_screenshot ended: an
\* exception it raised, or the RuntimeError of line 54, is caught at line 56,
\* logged and raised again as a RuntimeError
GenerateImageEnd(t) ==
    IF t.raised # ""
    THEN [result |-> RuntimeError("Screenshot generation failed: ", t.raised),
          log |-> <<"Failed to generate image from URL: ">>]
    ELSE IF t.value = NoImage
         THEN [result |-> RuntimeError("Screenshot generation failed: ",
                                       "Failed to capture screenshot."),
               log |-> <<"Failed to generate image from URL: ">>]
         ELSE [result |-> [kind |-> "image", message |-> "", detail |-> "",
                           image |-> t.value],
               log |-> <<>>]

\* the handler raising the exception again
HandlerReraise(exc, img) ==
    [end |-> [kind |-> "raised", raised |-> exc, value |-> NoImage], log |-> <<>>]

\* take_webpage_screenshot, lines 110-113: the exception is logged and the
\* function returns the image local as it stands
Handler(exc, img) ==
    [end |-> [kind |-> "returned", raised |-> "", value |-> img],
     log |-> <<"Failed to take webpage screenshot: ">>]

\* take_webpage_screenshot, line 113 (and line 97): a plain return
Return(img) ==
    [end |-> [kind |-> "returned", raised |-> "", value |-> img], log |-> <<>>]

\* the call ends: take_webpage_screenshot ends as h says, after logging
\* `before`, and generate_image ends on that
Finish(c, before, h, exc) ==
    LET g == GenerateImageEnd(h.end)
    IN /\ tws' = [tws EXCEPT ![c] = h.end]
       /\ result' = [result EXCEPT ![c] = g.result]
       /\ log' = [log EXCEPT ![c] = @ \o before \o h.log \o g.log]
       /\ caught' = [caught EXCEPT ![c] = [exc |-> exc, at |-> IF exc = "" THEN "" ELSE pc[c]]]
       /\ pc' = [pc EXCEPT ![c] = "done"]

(***************************************************************************)
(* The steps of a call.                                                    *)
(***************************************************************************)
\* generate_image, lines 23-49: the url is validated, the geometry and the
\* options are resolved; S and D are the settings and the device
\* configurations the host may pass
Start(c, S, D) ==
    /\ pc[c] = "idle"
    /\ \E s \in S, d \in D :
          /\ settings' = [settings EXCEPT ![c] = s]
          /\ IF ValidateUrl(s).ok
             THEN /\ url' = [url EXCEPT ![c] = ValidateUrl(s).url]
                  /\ device' = [device EXCEPT ![c] = d]
                  /\ dimensions' = [dimensions EXCEPT ![c] = Dimensions(d)]
                  /\ options' = [options EXCEPT ![c] = Options(s)]
                  /\ pc' = [pc EXCEPT ![c] = "alloc"]
                  /\ UNCHANGED result
             ELSE /\ result' = [result EXCEPT ![c] = RuntimeError(ValidateUrl(s).error, "")]
                  /\ pc' = [pc EXCEPT ![c] = "done"]
                  /\ UNCHANGED <<url, device, dimensions, options>>
    /\ UNCHANGED <<path, files, command, proc, image, log, tws, caught, foreign,
                   resizeVars>>

\* one fixed name for every call
TempNamesFixed(fs) == {1}

\* the names tempfile.NamedTemporaryFile may pick: it creates the file
\* exclusively, so never a name that exists
TempNames(fs) == {p \in Paths : fs[p].kind = "absent"}

\* c touches the file under p: foreign when another call created it
Touch(c, p) == foreign[c] \/ files[p].creator \notin {0, c}

\* take_webpage_screenshot, lines 69-73: the temporary file is created and
\* closed, or tempfile raises
AllocTemp(c) ==
    /\ pc[c] = "alloc"
    /\ \/ \E p \in TempNames(files) :
             /\ path' = [path EXCEPT ![c] = p]
             /\ foreign' = [foreign EXCEPT ![c] = Touch(c, p)]
             /\ files' = [files EXCEPT ![p] = [kind |-> "empty", size |-> <<0, 0>>,
                                               creator |-> c]]
             /\ pc' = [pc EXCEPT ![c] = "run"]
             /\ UNCHANGED <<log, tws, result, caught>>
       \/ /\ Finish(c, <<>>, Handler("OSError", image[c]), "OSError")
          /\ UNCHANGED <<path, files, foreign>>
    /\ UNCHANGED <<settings, device, url, dimensions, options, command, proc,
                   image, resizeVars>>

\* take_webpage_screenshot, lines 76-88: the command line
Command(u, dims, opts, p) ==
    [launched |-> TRUE, url |-> u, screenshot |-> p, window_size |-> dims,
     scale_factor |-> opts.zoom, viewport_sizing |-> opts.full_page]

\* what the browser may leave under the screenshot name: the file as it was,
\* no file, a capture, or a capture cut short
BrowserLeaves(c, f) ==
    {f, NoFile}
    \cup {[kind |-> k, size |-> z, creator |-> IF f.creator = 0 THEN c ELSE f.creator] :
            k \in {"png", "truncated"},
            z \in CaptureSizes(dimensions[c], options[c].zoom, options[c].full_page)}

\* take_webpage_screenshot, lines 76-91: the command is built and run;
\* subprocess.run raises (the binary is missing, the 30 s timeout expires) or
\* returns the exit status
RunBrowser(c) ==
    /\ pc[c] = "run"
    /\ command' = [command EXCEPT ![c] = Command(url[c], dimensions[c], options[c], path[c])]
    /\ \/ \E exc \in {"FileNotFoundError", "TimeoutExpired"} :
             /\ Finish(c, <<>>, Handler(exc, image[c]), exc)
             /\ UNCHANGED <<files, proc, foreign>>
       \/ \E rc \in {0, 1}, ok \in BOOLEAN, f \in BrowserLeaves(c, files[path[c]]) :
             /\ ok \/ rc # 0
             /\ proc' = [proc EXCEPT ![c] = [kind |-> "exited", returncode |-> rc,
                                             stderr_ok |-> ok, left |-> f]]
             /\ files' = [files EXCEPT ![path[c]] = f]
             /\ foreign' = [foreign EXCEPT ![c] = Touch(c, path[c])]
             /\ pc' = [pc EXCEPT ![c] = "check"]
             /\ UNCHANGED <<log, tws, result, caught>>
    /\ UNCHANGED <<settings, device, url, dimensions, options, path, image,
                   resizeVars>>

\* take_webpage_screenshot, lines 94-97: a non-zero exit status or a missing
\* output file is logged with the browser's stderr and None is returned;
\* stderr that is not UTF-8 makes decode raise
CheckResult(c) ==
    /\ pc[c] = "check"
    /\ IF proc[c].returncode # 0 \/ files[path[c]].kind = "absent"
       THEN IF proc[c].stderr_ok
            THEN Finish(c, <<"Failed to take screenshot:", "stderr">>, Return(NoImage), "")
            ELSE Finish(c, <<"Failed to take screenshot:">>,
                        Handler("UnicodeDecodeError", image[c]), "UnicodeDecodeError")
       ELSE /\ pc' = [pc EXCEPT ![c] = "open"]
            /\ UNCHANGED <<log, tws, result, caught>>
    /\ UNCHANGED <<settings, device, url, dimensions, options, path, files,
                   command, proc, image, foreign, resizeVars>>

\* take_webpage_screenshot, line 100: Image.open reads the header of the file
LoadImage(c) ==
    /\ pc[c] = "open"
    /\ foreign' = [foreign EXCEPT ![c] = Touch(c, path[c])]
    /\ CASE files[path[c]].kind = "absent" ->
              /\ Finish(c, <<>>, Handler("FileNotFoundError", image[c]), "FileNotFoundError")
              /\ UNCHANGED image
         [] files[path[c]].kind = "empty" ->
              /\ Finish(c, <<>>, Handler("UnidentifiedImageError", image[c]),
                        "UnidentifiedImageError")
              /\ UNCHANGED image
         [] OTHER ->
              /\ image' = [image EXCEPT ![c] =
                              [kind |-> "image", size |-> files[path[c]].size,
                               resized |-> FALSE, box |-> <<0, 0>>,
                               complete |-> files[path[c]].kind = "png"]]
              /\ pc' = [pc EXCEPT ![c] = IF options[c].full_page THEN "resize"
                                         ELSE "remove"]
              /\ UNCHANGED <<log, tws, result, caught>>
    /\ UNCHANGED <<settings, device, url, dimensions, options, path, files,
                   command, proc, resizeVars>>

\* take_webpage_screenshot, lines 103-105: the full-page capture is rescaled;
\* resize raises on a capture cut short and on a size below one pixel
Resize(c) ==
    /\ pc[c] = "resize"
    /\ IF ~image[c].complete
       THEN /\ Finish(c, <<>>, Handler("OSError", image[c]), "OSError")
            /\ UNCHANGED image
       ELSE IF ResizeRaises(NewSize(image[c].size, dimensions[c]))
            THEN /\ Finish(c, <<>>, Handler("ValueError", image[c]), "ValueError")
                 /\ UNCHANGED image
            ELSE /\ image' = [image EXCEPT ![c] =
                                 [kind |-> "image",
                                  size |-> NewSize(image[c].size, dimensions[c]),
                                  resized |-> TRUE, box |-> dimensions[c],
                                  complete |-> TRUE]]
                 /\ pc' = [pc EXCEPT ![c] = "remove"]
                 /\ UNCHANGED <<log, tws, result, caught>>
    /\ UNCHANGED <<settings, device, url, dimensions, options, path, files,
                   command, proc, foreign, resizeVars>>

\* take_webpage_screenshot, lines 108-113: os.remove deletes the file and the
\* image is returned, or os.remove raises
Remove(c) ==
    /\ pc[c] = "remove"
    /\ foreign' = [foreign EXCEPT ![c] = Touch(c, path[c])]
    /\ \/ IF files[path[c]].kind = "absent"
          THEN /\ Finish(c, <<>>, Handler("FileNotFoundError", image[c]),
                         "FileNotFoundError")
               /\ UNCHANGED files
          ELSE /\ Finish(c, <<>>, Return(image[c]), "")
               /\ files' = [files EXCEPT ![path[c]] = NoFile]
       \/ /\ Finish(c, <<>>, Handler("PermissionError", image[c]), "PermissionError")
          /\ UNCHANGED files
    /\ UNCHANGED <<settings, device, url, dimensions, options, path, command,
                   proc, image, resizeVars>>

Step(c, S, D) ==
    \/ Start(c, S, D)
    \/ AllocTemp(c)
    \/ RunBrowser(c)
    \/ CheckResult(c)
    \/ LoadImage(c)
    \/ Resize(c)
    \/ Remove(c)

\* one call of generate_image, on any settings
Next == Step(1, SettingsInputs, DeviceInputs)

Spec == Init /\ [][Next]_vars

\* two calls of generate_image at once
NextConcurrent == \E c \in Calls : Step(c, ConcurrentSettings, ConcurrentDevices)

SpecConcurrent == Init /\ [][NextConcurrent]_vars

(***************************************************************************)
(* _resize_full_page on its own, over every raw and target size.           *)
(***************************************************************************)
InitResize ==
    /\ InitCalls
    /\ rawIn \in (1..MaxRaw) \X (1..MaxRaw)
    /\ targetIn \in (1..MaxTarget) \X (1..MaxTarget)
    /\ resized = NotResized

\* _resize_full_page, lines 115-132: the new size is computed and the image
\* resized to it
ResizeFullPage ==
    /\ resized = NotResized
    /\ resized' = [kind |-> IF ResizeRaises(NewSize(rawIn, targetIn))
                            THEN "ValueError" ELSE "image",
                   size |-> NewSize(rawIn, targetIn)]
    /\ UNCHANGED <<callVars, files, rawIn, targetIn>>

NextResize == ResizeFullPage

SpecResize == InitResize /\ [][NextResize]_vars

(***************************************************************************)
(* The claims.                                                             *)
(***************************************************************************)
Launched(c) == command[c].launched
Done(c) == pc[c] = "done"
Returned(c) == tws[c].kind # "pending"

\* C1: once generate_image has returned or raised, the temporary file that
\* take_webpage_screenshot allocated no longer exists, whatever the exit path.
C1_TempFileRemoved ==
    \A c \in Calls :
        Done(c) /\ path[c] # NoPath => files[path[c]].kind = "absent"

\* C2: take_webpage_screenshot never raises; it returns an image only when
\* the browser exited with status 0 and the output file existed and was
\* loaded; and when the run fails (spawn failure, timeout, non-zero exit,
\* missing output file) it returns None and has logged an error.
C2_ReturnsOnlyOnSuccess ==
    \A c \in Calls :
        /\ tws[c].kind \in {"pending", "returned"}
        /\ tws[c].value # NoImage =>
              /\ proc[c].kind = "exited" /\ proc[c].returncode = 0
              /\ image[c].kind = "image" /\ tws[c].value = image[c]

C2_FailureStep ==
    \A c \in Calls :
        /\ pc[c] = "check" /\ pc'[c] = "open" =>
              proc[c].returncode = 0 /\ files[path[c]].kind # "absent"
        /\ pc[c] = "check" /\ pc'[c] # "check" /\
           (proc[c].returncode # 0 \/ files[path[c]].kind = "absent") =>
              /\ tws'[c] = [kind |-> "returned", raised |-> "", value |-> NoImage]
              /\ Len(log'[c]) > Len(log[c])
        /\ pc[c] = "run" /\ pc'[c] = "done" =>
              /\ tws'[c] = [kind |-> "returned", raised |-> "", value |-> NoImage]
              /\ Len(log'[c]) > Len(log[c])

C3_ImageOrRuntimeError ==
    \A c \in Calls :
        Done(c) /\ url[c] # <<>> =>
            \/ result[c].kind = "image" /\ result[c].image.kind = "image"
            \/ result[c].kind = "RuntimeError" /\ result[c].message # ""

C3_Witness ==
    /\ Done(1) /\ Launched(1)
    /\ tws[1].value = NoImage
    /\ result[1] = RuntimeError("Screenshot generation failed: ",
                                "Failed to capture screenshot.")

\* C4: the capture is all-or-nothing: when the full-page resize or the
\* removal of the temporary file raises, take_webpage_screenshot returns no
\* image; and with full_page set every image it returns has been through
\* _resize_full_page.
C4_AllOrNothing ==
    \A c \in Calls :
        Returned(c) =>
            /\ caught[c].at \in {"resize", "remove"} => tws[c].value = NoImage
            /\ options[c].full_page /\ tws[c].value # NoImage => tws[c].value.resized

\* C5: every image generate_image returns fits the target box: its width and
\* height are at most the effective target width and height.
C5_FitsTargetBox ==
    \A c \in Calls :
        result[c].kind = "image" =>
            /\ result[c].image.size[1] <= dimensions[c][1]
            /\ result[c].image.size[2] <= dimensions[c][2]

\* the exact ratio min(Tw/Rw, Th/Rh) as a fraction <<numerator, denominator>>
ExactRatio(raw, target) ==
    IF target[1] * raw[2] <= target[2] * raw[1]
    THEN <<target[1], raw[1]>> ELSE <<target[2], raw[2]>>

\* C6 as stated: for every raw and target size, _resize_full_page gives an
\* image whose size is (floor(Rw*ratio), floor(Rh*ratio)) for the ratio
\* min(Tw/Rw, Th/Rh), within the target box.
C6_ExactFloor ==
    resized # NotResized =>
        LET r == ExactRatio(rawIn, targetIn)
        IN /\ resized.kind = "image"
           /\ resized.size[1] = (rawIn[1] * r[1]) \div r[2]
           /\ resized.size[2] = (rawIn[2] * r[1]) \div r[2]
           /\ resized.size[1] <= targetIn[1] /\ resized.size[2] <= targetIn[2]

\* C6 as amended: the size _resize_full_page computes is within the target
\* box, and each side is the exact product of the raw side and the ratio
\* min(Tw/Rw, Th/Rh), truncated, or one pixel less when that product is a
\* whole number; the image is returned when both sides are at least one pixel,
\* and otherwise resize raises.
C6_FitsWithinOnePixel ==
    resized # NotResized =>
        LET r == ExactRatio(rawIn, targetIn)
            floorW == (rawIn[1] * r[1]) \div r[2]
            floorH == (rawIn[2] * r[1]) \div r[2]
        IN /\ resized.size[1] <= targetIn[1] /\ resized.size[2] <= targetIn[2]
           /\ resized.size[1] \in {floorW, floorW - 1}
           /\ resized.size[2] \in {floorH, floorH - 1}
           /\ resized.size[1] = floorW - 1 => (rawIn[1] * r[1]) % r[2] = 0
           /\ resized.size[2] = floorH - 1 => (rawIn[2] * r[1]) % r[2] = 0
           /\ resized.kind = "image" <=> (resized.size[1] >= 1 /\ resized.size[2] >= 1)

C6_Witness ==
    /\ rawIn = <<1, 11>> /\ targetIn = <<2, 15>>
    /\ resized = [kind |-> "image", size |-> <<1, 14>>]

C8_BadZoomRejected ==
    \A c \in Calls :
        Launched(c) => command[c].scale_factor \in {"1.0", "2.0", "0.5"}

\* C9: with orientation "vertical" the window size given to the browser and
\* the box of the full-page resize are both the swapped resolution, (800,480)
\* becoming (480,800); otherwise both are the resolution as it is; the window
\* size is never divided by the zoom, which goes to the device scale factor.
C9_OrientationSwap ==
    \A c \in Calls :
        LET base == device[c].resolution
            box == IF device[c].orientation = "vertical"
                   THEN <<base[2], base[1]>> ELSE base
        IN /\ Launched(c) =>
                 /\ command[c].window_size = box
                 /\ command[c].scale_factor =
                       (IF settings[c].zoomLevel = "absent" THEN "1.0"
                        ELSE settings[c].zoomLevel)
                 /\ device[c].orientation = "vertical" /\ base = <<800, 480>> =>
                       command[c].window_size = <<480, 800>>
           /\ image[c].resized => image[c].box = box

C9_Witness ==
    /\ device[1] = [resolution |-> <<800, 480>>, orientation |-> "vertical"]
    /\ settings[1].zoomLevel = "2.0"
    /\ command[1].window_size = <<480, 800>>
    /\ image[1].resized /\ image[1].box = <<480, 800>>

\* no browser run has ended with its output file gone
FilesStay ==
    \A c \in Calls : ~(proc[c].kind = "exited" /\ proc[c].left.kind = "absent")

====
